---- MODULE Spec2Model ----
(***************************************************************************)
(* space_shooter.py as a state machine.                                    *)
(*                                                                         *)
(* One action is one iteration of run_game's `while running` loop (a       *)
(* frame), in the Playing or in the GameOver phase; a restart (run_game    *)
(* returning True and main calling it again) is the tail of the GameOver   *)
(* frame that sees it.  Time is pygame.time.get_ticks() in milliseconds.   *)
(*                                                                         *)
(* Pixel geometry is the environment: which sprites leave the screen in a  *)
(* frame and which masks overlap after the sprites moved are inputs of the *)
(* frame, drawn with \E.  Everything the code decides from them (kills,    *)
(* damage, score, effects, timers, phase) is computed as the code does.    *)
(***************************************************************************)
EXTENDS Integers, Sequences, FiniteSets

\* ------------------------------------------------------------ constants
WINDOW_WIDTH == 1280
INITIAL_LASER_COOLDOWN == 400
SURVIVAL_POINTS_PER_SECOND == 10
METEOR_DESTRUCTION_POINTS == 20
LEVEL_THRESHOLDS == <<0, 300, 600, 900, 1200, 1500, 1800, 2100>>
MAX_LEVEL == Len(LEVEL_THRESHOLDS)
BASE_METEOR_SPAWN_RATE == 700
METEOR_SPAWN_RATE_DECREASE == 100
MIN_METEOR_SPAWN_RATE == 0
LASER_COOLDOWN_INCREASE_LEVEL == 3
LASER_COOLDOWN_INCREASE == 100
MAX_LASER_COOLDOWN == 800
INITIAL_LIVES == 3
\* Meteor.update: maximum age of a meteor, in ms
METEOR_MAX_AGE == 5000
\* run_game: period of the survival points, in ms
SURVIVAL_PERIOD == 1000
\* Meteor.__init__: base speed, and the 10% of it added per level
METEOR_BASE_SPEED == 500
METEOR_SPEED_STEP == 50
\* AnimatedExplosion: frames per second, number of frames (index in 1/1000)
ANIMATION_SPEED == 30
EXPLOSION_FRAMES == 21

\* --------------------------------------------------------------- bounds
\* the clock stops the exploration at MaxTime ms (Spec), MaxAgeTime (SpecAge),
\* MaxLongTime (SpecLong)
MaxTime == 2600
MaxAgeTime == 6000
MaxLongTime == 31000
\* at most this many meteors / lasers are alive at the end of a frame
MaxMeteors == 2
MaxLasers == 1
\* SpecLong: a meteor leaves the screen in the first frame that sees it
\* FallTime ms old, and SPACE is not pressed in the frames up to HuntFrom ms
FallTime == 2000
HuntFrom == 27000
\* run_game is entered at most MaxRuns times
MaxRuns == 2
\* the frame deltas clock.tick can return, in ms
Deltas == {600, 1000}
\* largest score given to the level function on its own
MaxProbeScore == 2400
\* SpecClimb: one-second frames up to ClimbUntil ms, the player shooting in
\* every other one of them up to FreeFrom ms, and short frames after
\* ClimbUntil up to MaxClimbTime ms
FreeFrom == 28000
ClimbUntil == 30000
MaxClimbTime == 30500
ClimbDeltas == {1000}
FineDeltas == {80, 400}

VARIABLES
    now,                \* pygame.time.get_ticks() at the last frame
    run,                \* number of calls of run_game so far
    running,            \* FALSE once main has left its loop
    game_over,          \* run_game.game_over
    score,              \* run_game.score
    level,              \* run_game.level
    last_score_update,  \* run_game.last_score_update
    meteor_spawn_rate,  \* run_game.meteor_spawn_rate
    meteor_timer,       \* run_game.meteor_timer
    player,             \* the Player object
    meteors,            \* meteor_sprites
    lasers,             \* laser_sprites
    explosions,         \* the AnimatedExplosion sprites of all_sprites
    space_down,         \* SPACE is held (pygame.key.get_pressed)
    collisions,         \* what the last frame's check_collisions saw and did
    input,              \* what the last frame's event loop was given
    probe               \* arguments and results of a pure function's call

vars == <<now, run, running, game_over, score, level, last_score_update,
          meteor_spawn_rate, meteor_timer, player, meteors, lasers,
          explosions, space_down, collisions, input, probe>>

Max(a, b) == IF a >= b THEN a ELSE b
Min(a, b) == IF a <= b THEN a ELSE b

\* ------------------------------------------------------ pure functions

\* the scan with `<=` for `<`
RECURSIVE LevelScanInclusive(_, _, _)
LevelScanInclusive(T, score_, i) ==
    IF i >= Len(T) THEN Len(T)
    ELSE IF score_ <= T[i + 1] THEN i
    ELSE LevelScanInclusive(T, score_, i + 1)

\* the scan returning one past the list when it runs off its end
RECURSIVE LevelScanPastList(_, _, _)
LevelScanPastList(T, score_, i) ==
    IF i >= Len(T) THEN Len(T) + 1
    ELSE IF score_ < T[i + 1] THEN i
    ELSE LevelScanPastList(T, score_, i + 1)

\* get_current_level over a threshold list T: the first index (0-based, as
\* enumerate counts) whose threshold exceeds the score, else len(T)
RECURSIVE LevelScan(_, _, _)
LevelScan(T, score_, i) ==
    IF i >= Len(T) THEN Len(T)
    ELSE IF score_ < T[i + 1] THEN i
    ELSE LevelScan(T, score_, i + 1)

\* the level with the `+1` of the comment at the call (line 515)
get_current_level_plus_one(score_) == LevelScan(LEVEL_THRESHOLDS, score_, 0) + 1

get_current_level(score_) == LevelScan(LEVEL_THRESHOLDS, score_, 0)

calculate_meteor_spawn_time(level_) ==
    Max(BASE_METEOR_SPAWN_RATE - (level_ * METEOR_SPAWN_RATE_DECREASE),
        MIN_METEOR_SPAWN_RATE)

\* ------------------------------------------------------------- Player

NewPlayer ==
    [can_shoot |-> TRUE,
     laser_cooldown |-> INITIAL_LASER_COOLDOWN,
     laser_shoot_time |-> 0,
     lives |-> INITIAL_LIVES,
     alive |-> TRUE]

\* take_damage with the test `self.lives < 0`
take_damage_late(p) ==
    LET l == p.lives - 1
    IN [p EXCEPT !.lives = l, !.alive = IF l < 0 THEN FALSE ELSE @]

\* Player.take_damage
take_damage(p) ==
    LET l == p.lives - 1
    IN [p EXCEPT !.lives = l, !.alive = IF l <= 0 THEN FALSE ELSE @]

\* Player.shoot_laser: the player after the call (fire says SPACE was just pressed)
shoot_laser(p, fire, t) ==
    IF fire /\ p.can_shoot
    THEN [p EXCEPT !.can_shoot = FALSE, !.laser_shoot_time = t]
    ELSE p

\* Player.laser_timer
laser_timer(p, t) ==
    IF ~p.can_shoot /\ t - p.laser_shoot_time >= p.laser_cooldown
    THEN [p EXCEPT !.can_shoot = TRUE]
    ELSE p

\* update_laser_cooldown without the `+ 1` in level_factor
update_laser_cooldown_late(p, current_level) ==
    IF current_level >= LASER_COOLDOWN_INCREASE_LEVEL
    THEN LET level_factor == current_level - LASER_COOLDOWN_INCREASE_LEVEL
             new_cooldown == INITIAL_LASER_COOLDOWN
                             + (level_factor * LASER_COOLDOWN_INCREASE)
         IN [p EXCEPT !.laser_cooldown = Min(new_cooldown, MAX_LASER_COOLDOWN)]
    ELSE p

\* Player.update_laser_cooldown
update_laser_cooldown(p, current_level) ==
    IF current_level >= LASER_COOLDOWN_INCREASE_LEVEL
    THEN LET level_factor == current_level - LASER_COOLDOWN_INCREASE_LEVEL + 1
             new_cooldown == INITIAL_LASER_COOLDOWN
                             + (level_factor * LASER_COOLDOWN_INCREASE)
         IN [p EXCEPT !.laser_cooldown = Min(new_cooldown, MAX_LASER_COOLDOWN)]
    ELSE p

\* Player.update without its last call
PlayerUpdateNoCooldown(p, fire, t, current_level) ==
    laser_timer(shoot_laser(p, fire, t), t)

\* Player.update (input and move only change the position, which is abstract)
PlayerUpdate(p, fire, t, current_level) ==
    update_laser_cooldown(laser_timer(shoot_laser(p, fire, t), t), current_level)

\* ------------------------------------------------------------ sprites

\* Meteor.__init__: speed = 500 * (1.0 + (level - 1) * 0.1), creation_time = now
NewMeteor(t, level_) ==
    [creation_time |-> t,
     speed |-> METEOR_BASE_SPEED + (level_ - 1) * METEOR_SPEED_STEP]

\* Meteor.__init__: the horizontal extent of image.get_frect(center=(x, y))
\* for an image `width` wide, in half pixels (left = x - width / 2)
meteor_frect(width, x) ==
    [left |-> 2 * x - width, right |-> 2 * x + width]

\* Meteor.__init__: the values random.randint(0, WINDOW_WIDTH - width) draws
meteor_draws(width) == 0..(WINDOW_WIDTH - width)

\* the kill condition with `>` for `>=`
meteor_expired_late(m, t, off) ==
    t - m.creation_time > METEOR_MAX_AGE \/ m \in off

\* Meteor.update's kill condition; off = the meteors whose rect.top passed
\* WINDOW_HEIGHT + 100 in this frame
meteor_expired(m, t, off) ==
    t - m.creation_time >= METEOR_MAX_AGE \/ m \in off

\* Laser.__init__ (a laser is told apart by the time of its shot)
NewLaser(t) == [shot |-> t]

\* AnimatedExplosion.__init__ (index in 1/1000 of a frame)
NewExplosion(l) == [laser |-> l.shot, index |-> 0]

\* AnimatedExplosion.update: index += animation_speed * dt; kill at len(frames)
explosion_update(es, dt) ==
    {[e EXCEPT !.index = @ + ANIMATION_SPEED * dt] :
        e \in {x \in es : x.index + ANIMATION_SPEED * dt < EXPLOSION_FRAMES * 1000}}

\* a sprite group is iterated in the order its sprites were added
RECURSIVE GroupOrder(_)
GroupOrder(ls) ==
    IF ls = {} THEN <<>>
    ELSE LET first == CHOOSE l \in ls : \A k \in ls : l.shot <= k.shot
         IN <<first>> \o GroupOrder(ls \ {first})

\* ---------------------------------------------------- check_collisions

RECURSIVE Times(_, _, _)
Times(F(_), n, x) == IF n = 0 THEN x ELSE Times(F, n - 1, F(x))

\* the player pass with one take_damage call per meteor hit
player_pass_each(p, ms, hitP) ==
    LET hit == ms \cap hitP
    IN [player |-> Times(take_damage, Cardinality(hit), p),
        meteors |-> ms \ hit,
        damage |-> Cardinality(hit)]

\* the player pass with dokill=False
player_pass_keep(p, ms, hitP) ==
    LET hit == ms \cap hitP
    IN [player |-> IF hit # {} THEN take_damage(p) ELSE p,
        meteors |-> ms,
        damage |-> IF hit # {} THEN 1 ELSE 0]

\* the player x meteor pass: spritecollide(player, meteor_sprites, True, ...)
\* kills every meteor in hitP; the player is damaged once if there is any
player_pass(p, ms, hitP) ==
    LET hit == ms \cap hitP
    IN [player |-> IF hit # {} THEN take_damage(p) ELSE p,
        meteors |-> ms \ hit,
        damage |-> IF hit # {} THEN 1 ELSE 0]

\* the laser loop's body killing only the first meteor it finds
laser_hit_first(acc, l, isects) ==
    LET meteors_hit == acc.meteors \cap isects
        first == CHOOSE m \in meteors_hit :
                    \A k \in meteors_hit : m.creation_time <= k.creation_time
    IN IF meteors_hit # {}
       THEN [acc EXCEPT !.meteors = @ \ {first},
                        !.lasers = @ \ {l},
                        !.effects = @ \cup {NewExplosion(l)},
                        !.score = @ + METEOR_DESTRUCTION_POINTS]
       ELSE acc

\* one iteration of `for laser in laser_sprites`: isects is the set of
\* meteors whose mask overlaps the laser's
laser_hit(acc, l, isects) ==
    LET meteors_hit == acc.meteors \cap isects
    IN IF meteors_hit # {}
       THEN [acc EXCEPT !.meteors = @ \ meteors_hit,
                        !.lasers = @ \ {l},
                        !.effects = @ \cup {NewExplosion(l)},
                        !.score = @ + METEOR_DESTRUCTION_POINTS]
       ELSE acc

\* what one iteration of the laser loop saw and did: the live meteors the
\* laser overlapped, how many of them it killed, the effects and points it
\* made, whether it was killed
LaserOutcome(acc, l, isects) ==
    LET after == laser_hit(acc, l, isects)
    IN [overlapped |-> Cardinality(acc.meteors \cap isects),
        killed |-> Cardinality(acc.meteors \ after.meteors),
        effects |-> Cardinality(after.effects \ acc.effects),
        points |-> after.score - acc.score,
        dead |-> l \notin after.lasers]

RECURSIVE laser_pass(_, _, _)
laser_pass(acc, order, isects) ==
    IF order = <<>> THEN acc
    ELSE LET l == Head(order)
         IN laser_pass([laser_hit(acc, l, isects[l]) EXCEPT
                           !.log = Append(@, LaserOutcome(acc, l, isects[l]))],
                       Tail(order), isects)

\* check_collisions with its two passes in the other order: the laser loop
\* first, then the player x meteor pass on what the lasers left
check_collisions_lasers_first(p, score_, ms, ls, hitP, isects) ==
    LET lp == laser_pass([meteors |-> ms, lasers |-> ls,
                          effects |-> {}, score |-> score_, log |-> <<>>],
                         GroupOrder(ls), isects)
        pp == player_pass(p, lp.meteors, hitP)
    IN [player |-> pp.player, damage |-> pp.damage,
        meteors |-> pp.meteors, lasers |-> lp.lasers,
        effects |-> lp.effects, score |-> lp.score, log |-> lp.log]

\* check_collisions taking the survival points back when the player is hit
check_collisions_penalty(p, score_, ms, ls, hitP, isects) ==
    LET pp == player_pass(p, ms, hitP)
        lp == laser_pass([meteors |-> pp.meteors, lasers |-> ls,
                          effects |-> {},
                          score |-> score_
                                    - pp.damage * SURVIVAL_POINTS_PER_SECOND,
                          log |-> <<>>],
                         GroupOrder(ls), isects)
    IN [player |-> pp.player, damage |-> pp.damage,
        meteors |-> lp.meteors, lasers |-> lp.lasers,
        effects |-> lp.effects, score |-> lp.score, log |-> lp.log]

\* check_collisions(player, score) on the groups ms, ls; hitP and isects are
\* the mask overlaps of this frame
check_collisions(p, score_, ms, ls, hitP, isects) ==
    LET pp == player_pass(p, ms, hitP)
        lp == laser_pass([meteors |-> pp.meteors, lasers |-> ls,
                          effects |-> {}, score |-> score_, log |-> <<>>],
                         GroupOrder(ls), isects)
    IN [player |-> pp.player, damage |-> pp.damage,
        meteors |-> lp.meteors, lasers |-> lp.lasers,
        effects |-> lp.effects, score |-> lp.score, log |-> lp.log]

\* the mask overlaps of the lasers when check_collisions is called, in the
\* laser loop's order: how many meteors of ms each laser overlaps (raw), and
\* how many of these overlap the player as well (shared)
Overlaps(ms, ls, hitP, isects) ==
    LET order == GroupOrder(ls)
    IN [i \in 1..Len(order) |->
           [raw |-> Cardinality(ms \cap isects[order[i]]),
            shared |-> Cardinality(ms \cap hitP \cap isects[order[i]])]]

\* the record of a frame's check_collisions: the frame's time, the number of
\* meteors that overlapped the player and that the player pass killed, the
\* number of take_damage calls, the laser loop's outcomes in its order, the
\* number of meteors the call found and left, and the lasers' overlaps
NoCollisions ==
    [at |-> -1, player_hits |-> 0, player_kills |-> 0, damage |-> 0,
     lasers |-> <<>>, found |-> 0, left |-> 0, overlaps |-> <<>>]

\* ------------------------------------------------------------ run_game

\* the inputs of a frame's event loop: events is "none" (no event queued),
\* "other" (events, no QUIT among them) or "quit" (a QUIT event among them);
\* space and esc say whether the key is held when the loop runs
NoInput == [events |-> "none", space |-> FALSE, esc |-> FALSE]

NoProbe == [T |-> <<>>, arg |-> 0, arg2 |-> 0, result |-> 0, result2 |-> 0,
            player |-> NewPlayer, spawn |-> 0, cooldown |-> 0,
            cooldown_next |-> 0, done |-> FALSE]

\* run_game without new sprite groups
RunGameSameGroups(t) ==
    /\ score' = 0
    /\ level' = 1
    /\ last_score_update' = t
    /\ meteor_spawn_rate' = calculate_meteor_spawn_time(1)
    /\ meteor_timer' = t
    /\ game_over' = FALSE
    /\ running' = TRUE
    /\ player' = NewPlayer
    /\ collisions' = NoCollisions
    /\ UNCHANGED <<meteors, lasers, explosions>>

\* run_game up to its loop, entered at time t
RunGame(t) ==
    /\ score' = 0
    /\ level' = 1
    /\ last_score_update' = t
    /\ meteor_spawn_rate' = calculate_meteor_spawn_time(1)
    /\ meteor_timer' = t
    /\ game_over' = FALSE
    /\ running' = TRUE
    /\ player' = NewPlayer
    /\ meteors' = {}
    /\ lasers' = {}
    /\ explosions' = {}
    /\ collisions' = NoCollisions

Init ==
    /\ now = 0
    /\ run = 1
    /\ score = 0
    /\ level = 1
    /\ last_score_update = 0
    /\ meteor_spawn_rate = calculate_meteor_spawn_time(1)
    /\ meteor_timer = 0
    /\ game_over = FALSE
    /\ running = TRUE
    /\ player = NewPlayer
    /\ meteors = {}
    /\ lasers = {}
    /\ explosions = {}
    /\ collisions = NoCollisions
    /\ space_down = FALSE
    /\ input = NoInput
    /\ probe = NoProbe

\* the survival points of a frame at time t
accrual_due(t) == t - last_score_update >= SURVIVAL_PERIOD

\* the spawn gate of a frame at time t
spawn_due(t) == t - meteor_timer >= meteor_spawn_rate

\* meteor_sprites and laser_sprites when all_sprites.update is called
MeteorsSpawned(t) ==
    IF spawn_due(t) THEN meteors \cup {NewMeteor(t, get_current_level(score))}
    ELSE meteors

LasersShot(t, fire) ==
    IF fire /\ player.can_shoot THEN lasers \cup {NewLaser(t)} ELSE lasers

\* ... and when it returns
MeteorsMoved(t, offM) == {m \in MeteorsSpawned(t) : ~meteor_expired(m, t, offM)}
LasersMoved(t, fire, offL) == LasersShot(t, fire) \ offL

\* One iteration of the loop while not game_over (lines 481-553).
\*   dt     clock.tick's delta       sp      SPACE is held after this frame's events
\*   quit   a QUIT event is queued   offM, offL   sprites that leave the screen
\*   hitP   meteors overlapping the player, isects[l] those overlapping laser l
PlayingFrame(dt, sp, quit, offM, offL, hitP, isects) ==
    LET t == now + dt
        fire == sp /\ ~space_down
        lvl == get_current_level(score)
        score1 == IF accrual_due(t) THEN score + SURVIVAL_POINTS_PER_SECOND
                  ELSE score
        p1 == PlayerUpdate(player, fire, t, lvl)
        ms == MeteorsMoved(t, offM)
        ls == LasersMoved(t, fire, offL)
        cc == check_collisions(p1, score1, ms, ls, hitP, isects)
    IN /\ running /\ ~game_over
       /\ now' = t
       /\ space_down' = sp
       /\ input' = [events |-> IF quit THEN "quit"
                               ELSE IF sp # space_down THEN "other" ELSE "none",
                    space |-> sp, esc |-> FALSE]
       /\ running' = ~quit
       /\ level' = lvl
       /\ last_score_update' = IF accrual_due(t) THEN t ELSE last_score_update
       /\ meteor_timer' = IF spawn_due(t) THEN t ELSE meteor_timer
       /\ meteor_spawn_rate' = IF spawn_due(t) THEN calculate_meteor_spawn_time(lvl)
                               ELSE meteor_spawn_rate
       /\ player' = cc.player
       /\ score' = cc.score
       /\ meteors' = cc.meteors
       /\ lasers' = cc.lasers
       /\ explosions' = explosion_update(explosions, dt) \cup cc.effects
       /\ game_over' = ~cc.player.alive
       /\ collisions' = [at |-> t,
                         player_hits |-> Cardinality(ms \cap hitP),
                         player_kills |->
                             Cardinality(ms \ player_pass(p1, ms, hitP).meteors),
                         damage |-> cc.damage,
                         lasers |-> cc.log,
                         found |-> Cardinality(ms),
                         left |-> Cardinality(cc.meteors),
                         overlaps |-> Overlaps(ms, ls, hitP, isects)]
       /\ UNCHANGED <<run, probe>>

\* the event loop of a frame while game_over (lines 487-498): what it decides
game_over_events(events, sp, esc) ==
    IF events = "none" THEN "continue"
    ELSE IF sp THEN "restart"
    ELSE IF esc THEN "quit"
    ELSE IF events = "quit" THEN "quit"
    ELSE "continue"

\* the frame without the `continue` of line 510: when the event loop does
\* not return, the survival points and the sprites' update run as in Playing
GameOverFrameNoSkip(dt, sp, esc, events) ==
    LET t == now + dt
        todo == game_over_events(events, sp, esc)
    IN /\ running /\ game_over
       /\ sp # space_down => events # "none"
       /\ now' = t
       /\ space_down' = sp
       /\ input' = [events |-> events, space |-> sp, esc |-> esc]
       /\ UNCHANGED probe
       /\ CASE todo = "restart" ->
                 /\ run < MaxRuns
                 /\ run' = run + 1
                 /\ RunGame(t)
            [] todo = "quit" ->
                 /\ running' = FALSE
                 /\ UNCHANGED <<run, game_over, score, level, last_score_update,
                                meteor_spawn_rate, meteor_timer, player, meteors,
                                lasers, explosions, collisions>>
            [] OTHER ->
                 /\ score' = IF accrual_due(t)
                             THEN score + SURVIVAL_POINTS_PER_SECOND ELSE score
                 /\ last_score_update' = IF accrual_due(t) THEN t
                                         ELSE last_score_update
                 /\ meteors' = {m \in meteors : ~meteor_expired(m, t, {})}
                 /\ explosions' = explosion_update(explosions, dt)
                 /\ UNCHANGED <<run, running, game_over, level,
                                meteor_spawn_rate, meteor_timer, player, lasers,
                                collisions>>

\* One iteration of the loop while game_over (lines 481-510), with main's
\* loop (lines 565-567) when run_game returns.
GameOverFrame(dt, sp, esc, events) ==
    LET t == now + dt
        todo == game_over_events(events, sp, esc)
    IN /\ running /\ game_over
       /\ sp # space_down => events # "none"
       /\ now' = t
       /\ space_down' = sp
       /\ input' = [events |-> events, space |-> sp, esc |-> esc]
       /\ UNCHANGED probe
       /\ CASE todo = "restart" ->
                 /\ run < MaxRuns
                 /\ run' = run + 1
                 /\ RunGame(t)
            [] todo = "quit" ->
                 /\ running' = FALSE
                 /\ UNCHANGED <<run, game_over, score, level, last_score_update,
                                meteor_spawn_rate, meteor_timer, player, meteors,
                                lasers, explosions, collisions>>
            [] OTHER ->
                 UNCHANGED <<run, running, game_over, score, level,
                             last_score_update, meteor_spawn_rate, meteor_timer,
                             player, meteors, lasers, explosions, collisions>>

\* ------------------------------------------------------- specification

Playing ==
    \E dt \in Deltas, sp \in BOOLEAN, quit \in BOOLEAN :
      /\ now + dt <= MaxTime
      /\ \E offM \in SUBSET MeteorsSpawned(now + dt),
            offL \in SUBSET LasersShot(now + dt, sp /\ ~space_down) :
           \E hitP \in SUBSET MeteorsMoved(now + dt, offM),
              isects \in [LasersMoved(now + dt, sp /\ ~space_down, offL)
                            -> SUBSET MeteorsMoved(now + dt, offM)] :
             /\ PlayingFrame(dt, sp, quit, offM, offL, hitP, isects)
             /\ Cardinality(meteors') <= MaxMeteors
             /\ Cardinality(lasers') <= MaxLasers

GameOver ==
    \E dt \in Deltas, sp \in BOOLEAN, esc \in BOOLEAN,
       events \in {"none", "other", "quit"} :
      /\ now + dt <= MaxTime
      /\ GameOverFrame(dt, sp, esc, events)

Next == Playing \/ GameOver

Spec == Init /\ [][Next]_vars

\* Frames in which nobody shoots or quits and the player is never hit, the
\* meteors staying on screen for as long as the environment likes.
AgePlaying ==
    \E dt \in Deltas :
      /\ now + dt <= MaxAgeTime
      /\ \E offM \in SUBSET MeteorsSpawned(now + dt) :
             /\ PlayingFrame(dt, FALSE, FALSE, offM, {}, {}, <<>>)
             /\ Cardinality(meteors') <= MaxMeteors

NextAge == AgePlaying

SpecAge == Init /\ [][NextAge]_vars

\* A long run in which the player is never hit and nobody quits: the player
\* only survives up to HuntFrom and may shoot after it; a laser that hits
\* nothing leaves the screen in the frame after its shot, a meteor in the
\* first frame that sees it FallTime old.
LongPlaying ==
    \E dt \in Deltas, sp \in BOOLEAN :
      LET offM == {m \in meteors : now + dt - m.creation_time >= FallTime}
      IN /\ now + dt <= MaxLongTime
         /\ sp => now + dt > HuntFrom
         /\ \E isects \in [LasersMoved(now + dt, sp /\ ~space_down, lasers)
                              -> SUBSET MeteorsMoved(now + dt, offM)] :
               PlayingFrame(dt, sp, FALSE, offM, lasers, {}, isects)

NextLong == LongPlaying

SpecLong == Init /\ [][NextLong]_vars

\* A run that climbs to level 3.  Up to ClimbUntil the frames are a second
\* long and what is left of a frame's hazards and projectiles leaves the
\* screen in the next one; a hazard may hit the player, but not with its last
\* life.  Up to FreeFrom the player presses SPACE in every other frame, the
\* shot destroys the hazard spawned in its frame, and no hazard hits the
\* player in a frame with a shot.  After ClimbUntil the frames are short and
\* every input is free.
Climbing == \E dt \in ClimbDeltas : now + dt <= ClimbUntil

ClimbPlaying ==
    \E dt \in ClimbDeltas, sp \in BOOLEAN :
      /\ now + dt <= ClimbUntil
      /\ now + dt <= FreeFrom => sp = ~space_down
      /\ \E hitP \in SUBSET MeteorsMoved(now + dt, meteors),
            isects \in [LasersMoved(now + dt, sp /\ ~space_down, lasers)
                          -> SUBSET MeteorsMoved(now + dt, meteors)] :
           /\ now + dt <= FreeFrom =>
                 /\ \A l \in DOMAIN isects :
                       isects[l] = MeteorsMoved(now + dt, meteors)
                 /\ DOMAIN isects # {} => hitP = {}
           /\ PlayingFrame(dt, sp, FALSE, meteors, lasers, hitP, isects)
           /\ ~game_over'

FinePlaying ==
    \E dt \in FineDeltas, sp \in BOOLEAN :
      /\ ~Climbing
      /\ now + dt <= MaxClimbTime
      /\ \E offM \in SUBSET MeteorsSpawned(now + dt),
            offL \in SUBSET LasersShot(now + dt, sp /\ ~space_down) :
           \E hitP \in SUBSET MeteorsMoved(now + dt, offM),
              isects \in [LasersMoved(now + dt, sp /\ ~space_down, offL)
                            -> SUBSET MeteorsMoved(now + dt, offM)] :
             /\ PlayingFrame(dt, sp, FALSE, offM, offL, hitP, isects)
             /\ Cardinality(meteors') <= MaxMeteors
             /\ Cardinality(lasers') <= MaxLasers

FineGameOver ==
    \E dt \in FineDeltas, sp \in BOOLEAN, esc \in BOOLEAN,
       events \in {"none", "other", "quit"} :
      /\ ~Climbing
      /\ now + dt <= MaxClimbTime
      /\ GameOverFrame(dt, sp, esc, events)

NextClimb == ClimbPlaying \/ FinePlaying \/ FineGameOver

SpecClimb == Init /\ [][NextClimb]_vars

\* The level function on its own: at a score and at a larger one, over the
\* program's thresholds and over a shorter list.
ProbeLists == {LEVEL_THRESHOLDS, <<0, 300, 600>>}
ProbeSteps == {1, 10, 20, 300}

InitLevel ==
    /\ now = 0
    /\ run = 1
    /\ score = 0
    /\ level = 1
    /\ last_score_update = 0
    /\ meteor_spawn_rate = calculate_meteor_spawn_time(1)
    /\ meteor_timer = 0
    /\ game_over = FALSE
    /\ running = TRUE
    /\ player = NewPlayer
    /\ meteors = {}
    /\ lasers = {}
    /\ explosions = {}
    /\ collisions = NoCollisions
    /\ space_down = FALSE
    /\ input = NoInput
    /\ probe \in {[NoProbe EXCEPT !.T = T, !.arg = a, !.arg2 = a + d] :
                    T \in ProbeLists, a \in 0..MaxProbeScore, d \in ProbeSteps}

ProbeLevel ==
    /\ ~probe.done
    /\ probe' = [probe EXCEPT !.result = LevelScan(probe.T, probe.arg, 0),
                              !.result2 = LevelScan(probe.T, probe.arg2, 0),
                              !.done = TRUE]
    /\ UNCHANGED <<now, run, running, game_over, score, level,
                   last_score_update, meteor_spawn_rate, meteor_timer, player,
                   meteors, lasers, explosions, space_down, collisions, input>>

NextLevel == ProbeLevel

SpecLevel == InitLevel /\ [][NextLevel]_vars

\* The difficulty functions on their own: calculate_meteor_spawn_time at a
\* level, and update_laser_cooldown at that level and at the next one, called
\* on a player that still has the cooldown of Player.__init__.
ProbePlayers ==
    {[NewPlayer EXCEPT !.can_shoot = c, !.laser_shoot_time = t, !.lives = l] :
        c \in BOOLEAN, t \in {0, 600, 1200}, l \in 1..INITIAL_LIVES}

InitDifficulty ==
    /\ now = 0
    /\ run = 1
    /\ score = 0
    /\ level = 1
    /\ last_score_update = 0
    /\ meteor_spawn_rate = calculate_meteor_spawn_time(1)
    /\ meteor_timer = 0
    /\ game_over = FALSE
    /\ running = TRUE
    /\ player = NewPlayer
    /\ meteors = {}
    /\ lasers = {}
    /\ explosions = {}
    /\ collisions = NoCollisions
    /\ space_down = FALSE
    /\ input = NoInput
    /\ probe \in {[NoProbe EXCEPT !.arg = L, !.player = p] :
                    L \in 1..MAX_LEVEL, p \in ProbePlayers}

ProbeDifficulty ==
    /\ ~probe.done
    /\ probe' = [probe EXCEPT
                    !.spawn = calculate_meteor_spawn_time(probe.arg),
                    !.player = update_laser_cooldown(@, probe.arg),
                    !.cooldown =
                        update_laser_cooldown(probe.player, probe.arg).laser_cooldown,
                    !.cooldown_next =
                        update_laser_cooldown(probe.player,
                                              probe.arg + 1).laser_cooldown,
                    !.done = TRUE]
    /\ UNCHANGED <<now, run, running, game_over, score, level,
                   last_score_update, meteor_spawn_rate, meteor_timer, player,
                   meteors, lasers, explosions, space_down, collisions, input>>

NextDifficulty == ProbeDifficulty

SpecDifficulty == InitDifficulty /\ [][NextDifficulty]_vars

\* The horizontal placement of a new meteor on its own: the width of the
\* image and the value that random.randint draws.
ProbeWidths == {1, 2, 101, 640}

InitPlacement ==
    /\ now = 0
    /\ run = 1
    /\ score = 0
    /\ level = 1
    /\ last_score_update = 0
    /\ meteor_spawn_rate = calculate_meteor_spawn_time(1)
    /\ meteor_timer = 0
    /\ game_over = FALSE
    /\ running = TRUE
    /\ player = NewPlayer
    /\ meteors = {}
    /\ lasers = {}
    /\ explosions = {}
    /\ collisions = NoCollisions
    /\ space_down = FALSE
    /\ input = NoInput
    /\ probe \in {[NoProbe EXCEPT !.arg = w, !.arg2 = x] :
                    w \in ProbeWidths, x \in meteor_draws(1)}
    /\ probe.arg2 \in meteor_draws(probe.arg)

ProbePlacement ==
    /\ ~probe.done
    /\ probe' = [probe EXCEPT
                    !.result = meteor_frect(probe.arg, probe.arg2).left,
                    !.result2 = meteor_frect(probe.arg, probe.arg2).right,
                    !.done = TRUE]
    /\ UNCHANGED <<now, run, running, game_over, score, level,
                   last_score_update, meteor_spawn_rate, meteor_timer, player,
                   meteors, lasers, explosions, space_down, collisions, input>>

NextPlacement == ProbePlacement

SpecPlacement == InitPlacement /\ [][NextPlacement]_vars

\* ------------------------------------------------------------- claims

\* the state is the end of a Playing frame / the step is a Playing frame
AfterPlaying == collisions.at = now
PlayingStep == collisions'.at = now'

\* C1: the player's lives stay in 0..INITIAL_LIVES and never increase
\* within a run, however many hazards hit the player
C1_LivesBounded ==
    /\ [](player.lives \in 0..INITIAL_LIVES)
    /\ [][run' = run => player'.lives <= player.lives]_vars

\* two hazards hit the player with its last life
C1_Witness ==
    AfterPlaying /\ collisions.player_hits >= 2 /\ player.lives = 0

\* C2: the phase is GameOver from the very frame in which lives reaches 0,
\* never before, and stays GameOver for the rest of the run
C2_GameOverAtZero ==
    /\ [](game_over <=> player.lives = 0)
    /\ [][(game_over /\ run' = run) => game_over']_vars

\* the run is still in GameOver a frame after the one that ended it
C2_Witness ==
    game_over /\ player.lives = 0 /\ now > collisions.at /\ running

\* C3 as claimed: n hazards on the player are n damage events
C3_DamagePerHazard ==
    [][(PlayingStep /\ collisions'.player_hits >= 1) =>
          /\ collisions'.player_kills = collisions'.player_hits
          /\ collisions'.damage = collisions'.player_hits
          /\ player'.lives = Max(player.lives - collisions'.player_hits, 0)]_vars

\* C3, amended: the n >= 1 hazards that overlap the player in a frame are
\* all destroyed and the player takes one damage event (lives - 1)
C3_OneDamagePerFrame ==
    [][(PlayingStep /\ collisions'.player_hits >= 1) =>
          /\ collisions'.player_kills = collisions'.player_hits
          /\ collisions'.damage = 1
          /\ player'.lives = player.lives - 1]_vars

\* two hazards overlapped the player in the last frame
C3_Witness ==
    AfterPlaying /\ collisions.player_hits >= 2 /\ collisions.damage = 1

\* C4 as claimed: a projectile over two or more live hazards destroys one
C4_OneHazardPerProjectile ==
    \A i \in DOMAIN collisions.lasers :
        collisions.lasers[i].overlapped >= 2 =>
            /\ collisions.lasers[i].killed = 1
            /\ collisions.lasers[i].dead
            /\ collisions.lasers[i].effects = 1
            /\ collisions.lasers[i].points = METEOR_DESTRUCTION_POINTS

\* C4, amended: a projectile over two or more live hazards destroys all of
\* them, is destroyed, creates one effect and scores 20 once
C4_AllHazardsOneScore ==
    \A i \in DOMAIN collisions.lasers :
        collisions.lasers[i].overlapped >= 2 =>
            /\ collisions.lasers[i].killed = collisions.lasers[i].overlapped
            /\ collisions.lasers[i].dead
            /\ collisions.lasers[i].effects = 1
            /\ collisions.lasers[i].points = METEOR_DESTRUCTION_POINTS

\* a projectile overlapped two live hazards in the last frame
C4_Witness ==
    \E i \in DOMAIN collisions.lasers : collisions.lasers[i].overlapped >= 2

\* C5: after a Playing frame no live hazard is METEOR_MAX_AGE ms old or more
C5_NoOldHazard ==
    AfterPlaying => \A m \in meteors : now - m.creation_time < METEOR_MAX_AGE

\* a live hazard that any next frame sees at the maximum age or beyond
C5_Witness ==
    /\ AfterPlaying
    /\ \E m \in meteors :
         \A dt \in Deltas : now + dt - m.creation_time >= METEOR_MAX_AGE

\* a run as run_game leaves it when entered at time t
FreshRun(t) ==
    /\ score = 0
    /\ level = 1
    /\ player = [can_shoot |-> TRUE, laser_cooldown |-> INITIAL_LASER_COOLDOWN,
                 laser_shoot_time |-> 0, lives |-> INITIAL_LIVES, alive |-> TRUE]
    /\ meteors = {} /\ lasers = {} /\ explosions = {}
    /\ last_score_update = t /\ meteor_timer = t
    /\ meteor_spawn_rate = 600
    /\ ~game_over /\ running

\* C6: a restart leaves the state of a fresh run, whatever the run before
C6_RestartIsFresh ==
    [][run' # run => (game_over /\ run' = run + 1 /\ FreshRun(now)')]_vars

\* a restart has just happened
C6_Witness ==
    run = 2 /\ collisions.at = -1 /\ last_score_update = now

\* no hazard has hit the player and no shot was fired since the program began
NoCollisionSoFar ==
    run = 1 /\ player.lives = INITIAL_LIVES /\ player.laser_shoot_time = 0

\* C7: with no collisions the score is 300 after 30 seconds, whatever the
\* frame deltas that add up to them
C7_Score300After30s ==
    (NoCollisionSoFar /\ now = 30 * SURVIVAL_PERIOD) =>
        score = 30 * SURVIVAL_POINTS_PER_SECOND

\* levelFor of the specification: the smallest 0-based index i with
\* score < T[i], or the length of T when there is none
LevelFor(T, s) ==
    IF \E i \in 1..Len(T) : s < T[i]
    THEN (CHOOSE i \in 1..Len(T) :
             s < T[i] /\ \A j \in 1..(i - 1) : ~(s < T[j])) - 1
    ELSE Len(T)

\* C8 as claimed: after a Playing frame the level is the level of the score
C8_LevelOfEndScore ==
    AfterPlaying => level = LevelFor(LEVEL_THRESHOLDS, score)

\* C8, amended: the level a Playing frame leaves (and shows) is the level
\* of the score at the start of that frame
C8_LevelOfStartScore ==
    [][PlayingStep => level' = LevelFor(LEVEL_THRESHOLDS, score)]_vars

\* a hazard destruction took the score over 300 and the level shown is 1
C8_Witness ==
    /\ AfterPlaying /\ level = 1 /\ score >= 300
    /\ \E i \in DOMAIN collisions.lasers : collisions.lasers[i].points > 0

\* C9: the level function returns the smallest index whose threshold
\* exceeds the score, else the number of thresholds; it is monotone, 1 at
\* 0 and at 299, 2 at 300, and within 1..K
C9_LevelFunction ==
    probe.done =>
        /\ probe.result = LevelFor(probe.T, probe.arg)
        /\ probe.result <= probe.result2
        /\ probe.result \in 1..Len(probe.T)
        /\ probe.arg \in {0, 299} => probe.result = 1
        /\ probe.arg = 300 => probe.result = 2

\* the program's function was applied to 300 and gave 2
C9_Witness ==
    /\ probe.done /\ probe.T = LEVEL_THRESHOLDS
    /\ probe.arg = 300 /\ probe.result = 2

\* C10 as claimed: at or past the last threshold the level is K + 1
C10_PastListCeiling ==
    (probe.done /\ probe.arg >= probe.T[Len(probe.T)]) =>
        probe.result = Len(probe.T) + 1

\* C10, amended: at or past the last threshold the level is K, the number
\* of thresholds (3 for [0,300,600] at 1000, 8 for the program at 2100)
C10_CappedAtListLength ==
    (probe.done /\ probe.arg >= probe.T[Len(probe.T)]) =>
        probe.result = Len(probe.T)

\* the function was applied to 1000 over [0,300,600] and gave 3
C10_Witness ==
    /\ probe.done /\ probe.T = <<0, 300, 600>>
    /\ probe.arg = 1000 /\ probe.result = 3

\* C11: the spawn interval at level L is
\* max(BASE - (L - 1) * DECREASE, MIN), which is the base 700 ms at level 1
C11_SpawnInterval ==
    probe.done =>
        /\ probe.spawn = Max(BASE_METEOR_SPAWN_RATE
                               - (probe.arg - 1) * METEOR_SPAWN_RATE_DECREASE,
                             MIN_METEOR_SPAWN_RATE)
        /\ probe.arg = 1 => probe.spawn = BASE_METEOR_SPAWN_RATE

\* C12 as claimed: the cooldown is the base below level 3, strictly
\* increasing in the level from level 3 on, and at most MAX_LASER_COOLDOWN
C12_StrictlyIncreasing ==
    probe.done =>
        /\ probe.arg < LASER_COOLDOWN_INCREASE_LEVEL =>
               probe.cooldown = INITIAL_LASER_COOLDOWN
        /\ (probe.arg >= LASER_COOLDOWN_INCREASE_LEVEL /\ probe.arg < MAX_LEVEL) =>
               probe.cooldown_next > probe.cooldown
        /\ probe.cooldown <= MAX_LASER_COOLDOWN

\* C12, amended: the cooldown is the base below level 3 and
\* min(400 + (L - 2) * 100, 800) from level 3 on; it never decreases with
\* the level, increases strictly while it is below MAX_LASER_COOLDOWN, and
\* never exceeds it
C12_IncreasingUpToCap ==
    probe.done =>
        /\ probe.arg < LASER_COOLDOWN_INCREASE_LEVEL =>
               probe.cooldown = INITIAL_LASER_COOLDOWN
        /\ probe.arg >= LASER_COOLDOWN_INCREASE_LEVEL =>
               /\ probe.cooldown =
                      Min(INITIAL_LASER_COOLDOWN
                            + (probe.arg - 2) * LASER_COOLDOWN_INCREASE,
                          MAX_LASER_COOLDOWN)
               /\ probe.cooldown_next >= probe.cooldown
               /\ probe.cooldown < MAX_LASER_COOLDOWN =>
                      probe.cooldown_next > probe.cooldown
        /\ probe.cooldown <= MAX_LASER_COOLDOWN
        /\ probe.player.laser_cooldown = probe.cooldown

\* the cooldown was computed at level 6 and at level 7, and is the cap at both
C12_Witness ==
    /\ probe.done /\ probe.arg = 6
    /\ probe.cooldown = MAX_LASER_COOLDOWN
    /\ probe.cooldown_next = MAX_LASER_COOLDOWN

\* C13: a GameOver frame that neither restarts nor quits changes nothing of
\* the simulation: score, level, the player (lives, weapon state), the
\* hazards, the projectiles, the effects and their animation index, the
\* timers; nothing is spawned and nothing removed
C13_GameOverFrozen ==
    [][(game_over /\ run' = run /\ running') =>
          /\ game_over'
          /\ UNCHANGED <<score, level, player, meteors, lasers, explosions,
                         last_score_update, meteor_timer, meteor_spawn_rate>>]_vars

\* a GameOver frame has passed, more than a second after the last survival
\* points, with a projectile still in its group
C13_Witness ==
    /\ game_over /\ running /\ now > collisions.at
    /\ lasers # {}
    /\ now - last_score_update >= SURVIVAL_PERIOD

\* a quit was given to the frame that made this state: a QUIT event in any
\* phase, or ESC held while the event loop of a GameOver frame had an event
QuitProcessed ==
    \/ input.events = "quit"
    \/ input.esc /\ input.events # "none"

\* C14: a frame that processes a quit ends the program and starts no new
\* run, whatever other keys are held
C14_QuitNeverRestarts ==
    [][QuitProcessed' => (run' = run /\ ~running')]_vars

\* the number of projectiles of a laser loop that scored
ScoringLasers(log) == Cardinality({i \in DOMAIN log : log[i].points > 0})

\* C15: within a run no frame lowers the score, and what a frame adds is
\* made of the two changes the program makes to it: +10 when the survival
\* points are due, and +20 for each projectile that destroyed hazards, a
\* multiple of 20; damage and the GameOver frames add nothing
C15_ScoreMonotone ==
    [][run' = run =>
          /\ score' >= score
          /\ IF PlayingStep
             THEN /\ \A i \in DOMAIN collisions'.lasers :
                        collisions'.lasers[i].points
                            \in {0, METEOR_DESTRUCTION_POINTS}
                  /\ score' - score =
                        (IF last_score_update' = now'
                         THEN SURVIVAL_POINTS_PER_SECOND ELSE 0)
                        + METEOR_DESTRUCTION_POINTS
                            * ScoringLasers(collisions'.lasers)
             ELSE score' = score]_vars

\* a frame gave the survival points, a projectile scored in it and the
\* player was hit in it
C15_Witness ==
    /\ AfterPlaying /\ last_score_update = now
    /\ ScoringLasers(collisions.lasers) >= 1
    /\ collisions.damage = 1

\* C16: in every Playing frame a hazard is created if and only if the time
\* since the last spawn is at least the spawn interval of the frame's level,
\* as calculate_meteor_spawn_time gives it for that level; then one hazard
\* is created and the spawn timestamp is the frame's time
C16_GateOfCurrentLevel ==
    [][PlayingStep =>
          LET due == now' - meteor_timer >= calculate_meteor_spawn_time(level')
          IN /\ (meteor_timer' = now') <=> due
             /\ ~due => meteor_timer' = meteor_timer
             /\ Cardinality({m \in meteors' : m.creation_time = now'}) <= 1
             /\ ~due => \A m \in meteors' : m.creation_time < now']_vars

\* weaponCooldownMs of the specification
weaponCooldownMs(L) ==
    IF L < LASER_COOLDOWN_INCREASE_LEVEL THEN INITIAL_LASER_COOLDOWN
    ELSE Min(INITIAL_LASER_COOLDOWN
               + (L - LASER_COOLDOWN_INCREASE_LEVEL + 1) * LASER_COOLDOWN_INCREASE,
             MAX_LASER_COOLDOWN)

\* C17: the player's stored cooldown is weaponCooldownMs of the level, after
\* every Playing frame and in every other state of a run, the first state
\* after a restart included
C17_StoredCooldown ==
    player.laser_cooldown = weaponCooldownMs(level)

\* a Playing frame at level 3 has raised the stored cooldown to 500
C17_Witness ==
    /\ AfterPlaying /\ level = LASER_COOLDOWN_INCREASE_LEVEL
    /\ player.laser_cooldown = INITIAL_LASER_COOLDOWN + LASER_COOLDOWN_INCREASE

\* C18: a shot in a Playing frame comes at least weaponCooldownMs of the
\* frame's level after the previous shot of the run
C18_FireGatedByCooldown ==
    [][(PlayingStep /\ run' = run /\ player'.laser_shoot_time = now'
          /\ player.laser_shoot_time > 0) =>
          now' - player.laser_shoot_time >= weaponCooldownMs(level')]_vars

\* C19: a hazard is created with its full width on screen, whatever the
\* draw and the width: 0 <= left and right <= WINDOW_WIDTH (in half pixels)
C19_FullWidthOnScreen ==
    probe.done =>
        /\ 0 <= probe.result
        /\ probe.result2 <= 2 * WINDOW_WIDTH

\* C20: a restart happens only in a frame in which SPACE becomes pressed
C20_RestartOnPressOnly ==
    [][run' # run => (~space_down /\ space_down')]_vars

\* the meteors the laser loop of the last frame killed, all lasers together
RECURSIVE LaserKills(_)
LaserKills(log) ==
    IF log = <<>> THEN 0 ELSE Head(log).killed + LaserKills(Tail(log))

\* C21: the player x hazard pass runs first.  A projectile whose hazards
\* all overlap the player as well finds none of them alive: it destroys
\* nothing, scores nothing, makes no effect and stays alive, and the player
\* takes the damage.  No projectile counts a hazard the player pass
\* destroyed, and no hazard is destroyed twice in a frame.
C21_PlayerPassFirst ==
    AfterPlaying =>
        /\ Len(collisions.overlaps) = Len(collisions.lasers)
        /\ \A i \in DOMAIN collisions.lasers :
              LET o == collisions.overlaps[i]
                  l == collisions.lasers[i]
              IN /\ l.overlapped <= o.raw - o.shared
                 /\ l.killed <= o.raw - o.shared
                 /\ o.shared >= 1 => collisions.damage = 1
                 /\ (o.shared >= 1 /\ o.raw = o.shared) =>
                        /\ l.killed = 0 /\ l.points = 0
                        /\ l.effects = 0 /\ ~l.dead
        /\ collisions.player_kills = collisions.player_hits
        /\ collisions.found - collisions.left =
              collisions.player_kills + LaserKills(collisions.lasers)

\* a hazard overlapped the player and a projectile in the last frame, and
\* the projectile overlapped nothing else
C21_Witness ==
    /\ AfterPlaying
    /\ \E i \in DOMAIN collisions.overlaps :
          /\ collisions.overlaps[i].shared >= 1
          /\ collisions.overlaps[i].raw = collisions.overlaps[i].shared
          /\ ~collisions.lasers[i].dead
    /\ collisions.damage = 1

====
